---------------------------- MODULE Spec2Model ----------------------------
(***************************************************************************)
(* Model of apployer's reconciliation decision (apployer/app_compare.py):  *)
(* should_update, _get_app_versions, _properties_differ, _dict_is_part_of  *)
(* and _normalize_to_megabytes; and of the merge of fetched values into    *)
(* the deployment variables (apployer/fetcher/fetcher.py).                 *)
(*                                                                         *)
(* Strings the code inspects character by character (size strings and      *)
(* version strings) are sequences of one-character strings.  Strings the   *)
(* code only compares for equality (names, hosts, guids) are TLA+ strings. *)
(* A Python dict is the sequence of its (key, value) items in iteration    *)
(* order; its keys are pairwise different.  Python 2 iterates a dict in    *)
(* hash order, so every order is a possible input.                         *)
(***************************************************************************)
EXTENDS Integers, Sequences, FiniteSets, TLC

VARIABLES
    \* should_update(app)
    app_properties,   \* app.app_properties: sequence of <<key, value>> items
    app_guid,         \* value returned by cf_cli.get_app_guid
    app_summary,      \* value returned by cf_api.get_app_summary
    pc,               \* position inside should_update
    idx,              \* position of the loop of _properties_differ
    result,           \* outcome of should_update (return value or exception)
    calls,            \* collaborator calls made so far, in order
    \* _normalize_to_megabytes(value)
    value,            \* the size string
    megabytes,        \* its outcome
    \* _dict_is_part_of(dict_a, dict_b)
    dict_a,
    dict_b,
    part_of,          \* its outcome
    \* should_update(app) called a second time
    given_properties, \* app.app_properties as the caller built it
    first_run,        \* what the first call was answered and what it gave
    \* fill_appstack: _get_environment_config, _get_full_deployment_config
    cdh_conf,             \* what CdhConfExtractor gives
    env_conf,             \* what CFConfExtractor gives
    file_variables,       \* content of templates/template_variables.yml
    fetched_config,       \* value of _get_environment_config
    deployment_variables, \* the dict _get_full_deployment_config fills
    unmerged,             \* keys the loop of line 97 has not seen yet
    fpc                   \* position inside fill_appstack

vars == <<app_properties, app_guid, app_summary, pc, idx, result, calls,
          value, megabytes, dict_a, dict_b, part_of,
          given_properties, first_run,
          cdh_conf, env_conf, file_variables, fetched_config,
          deployment_variables, unmerged, fpc>>

decider_vars == <<app_properties, app_guid, app_summary, pc, idx, result, calls>>
size_vars == <<value, megabytes>>
dict_vars == <<dict_a, dict_b, part_of>>
rerun_vars == <<given_properties, first_run>>
fetcher_vars == <<cdh_conf, env_conf, file_variables, fetched_config,
                  deployment_variables, unmerged, fpc>>

-----------------------------------------------------------------------------
(* Outcomes of a Python call.                                              *)

Return(v) == [kind |-> "return", value |-> v]
Raise(exc) == [kind |-> "raise", exc |-> exc]
\* a function that falls off its end returns None
ReturnNone == [kind |-> "return_none"]
\* the call has not been made
NotCalled == [kind |-> "not_called"]

-----------------------------------------------------------------------------
(* Sequences.                                                              *)

\* All sequences over S of length at most n.
SeqsUpTo(S, n) == UNION {[1..k -> S] : k \in 0..n}

Last(s) == s[Len(s)]

\* s[:-n] for n <= Len(s)
DropLast(s, n) == SubSeq(s, 1, Len(s) - n)

\* str.endswith(suffix)
EndsWith(s, suffix) ==
    /\ Len(s) >= Len(suffix)
    /\ SubSeq(s, Len(s) - Len(suffix) + 1, Len(s)) = suffix

-----------------------------------------------------------------------------
(* int(str) on a decimal literal without sign or blanks.                   *)

Digits == <<"0", "1", "2", "3", "4", "5", "6", "7", "8", "9">>

IsDigit(c) == \E i \in 1..Len(Digits) : Digits[i] = c

DigitValue(c) == (CHOOSE i \in 1..Len(Digits) : Digits[i] = c) - 1

IsDecimal(s) == Len(s) > 0 /\ \A i \in 1..Len(s) : IsDigit(s[i])

RECURSIVE DecimalValue(_)
DecimalValue(s) ==
    IF Len(s) = 0 THEN 0
    ELSE 10 * DecimalValue(DropLast(s, 1)) + DigitValue(Last(s))

\* int(s): the number, or ValueError for a literal that is not an integer
PyInt(s) == IF IsDecimal(s) THEN Return(DecimalValue(s)) ELSE Raise("ValueError")

-----------------------------------------------------------------------------
(* _normalize_to_megabytes                                                 *)

MegabytesPerGigabyte == 1024

\* int(prefix) * factor, the exception of int() passing through
Scaled(prefix, factor) ==
    LET n == PyInt(prefix)
    IN  IF n.kind = "return" THEN Return(n.value * factor) ELSE n

\* the slip of taking every suffix for a one-letter suffix
normalize_one_letter_suffix(v) ==
    IF EndsWith(v, <<"M">>) \/ EndsWith(v, <<"M", "B">>)
    THEN Scaled(DropLast(v, 1), 1)
    ELSE IF EndsWith(v, <<"G">>) \/ EndsWith(v, <<"G", "B">>)
    THEN Scaled(DropLast(v, 1), MegabytesPerGigabyte)
    ELSE ReturnNone

normalize_to_megabytes(v) ==
    IF EndsWith(v, <<"M">>) THEN Scaled(DropLast(v, 1), 1)
    ELSE IF EndsWith(v, <<"M", "B">>) THEN Scaled(DropLast(v, 2), 1)
    ELSE IF EndsWith(v, <<"G">>) THEN Scaled(DropLast(v, 1), MegabytesPerGigabyte)
    ELSE IF EndsWith(v, <<"G", "B">>) THEN Scaled(DropLast(v, 2), MegabytesPerGigabyte)
    ELSE ReturnNone

-----------------------------------------------------------------------------
(* pkg_resources.parse_version, as _get_app_versions calls it.  A string   *)
(* that is a PEP 440 version parses to a Version, any other string to a    *)
(* LegacyVersion; every LegacyVersion sorts before every Version.  The     *)
(* version strings of this model are over the digits, "." and the letters  *)
(* "d" and "z": such a string is a PEP 440 version exactly when it is a    *)
(* dotted sequence of numbers, and none of its letter runs is one of the   *)
(* words the legacy parser rewrites (pre, preview, rc, dev).               *)

\* the characters of the model's strings, in ASCII order
CharOrder == <<"*", "-", ".", "0", "1", "2", "3", "4", "5", "6", "7", "8", "9",
               "B", "G", "K", "M", "a", "d", "f", "i", "l", "n", "z">>

Ord(c) == CHOOSE i \in 1..Len(CharOrder) : CharOrder[i] = c

\* Python's < on str
RECURSIVE StrLess(_, _)
StrLess(a, b) ==
    IF Len(b) = 0 THEN FALSE
    ELSE IF Len(a) = 0 THEN TRUE
    ELSE IF a[1] # b[1] THEN Ord(a[1]) < Ord(b[1])
    ELSE StrLess(Tail(a), Tail(b))

\* Python's < on tuples of str
RECURSIVE PartsLess(_, _)
PartsLess(a, b) ==
    IF Len(b) = 0 THEN FALSE
    ELSE IF Len(a) = 0 THEN TRUE
    ELSE IF a[1] # b[1] THEN StrLess(a[1], b[1])
    ELSE PartsLess(Tail(a), Tail(b))

\* Python's < on tuples of int
RECURSIVE ReleaseLess(_, _)
ReleaseLess(a, b) ==
    IF Len(b) = 0 THEN FALSE
    ELSE IF Len(a) = 0 THEN TRUE
    ELSE IF a[1] # b[1] THEN a[1] < b[1]
    ELSE ReleaseLess(Tail(a), Tail(b))

\* length of the longest prefix of s made of digits (digits = TRUE) or of
\* characters that are neither a digit nor "."
RECURSIVE RunLength(_, _)
RunLength(s, digits) ==
    IF Len(s) = 0 \/ s[1] = "." \/ IsDigit(s[1]) # digits THEN 0
    ELSE 1 + RunLength(Tail(s), digits)

\* the string split at its "."s into runs of digits and runs of letters
RECURSIVE Components(_)
Components(s) ==
    IF Len(s) = 0 THEN <<>>
    ELSE IF s[1] = "." THEN Components(Tail(s))
    ELSE LET n == RunLength(s, IsDigit(s[1]))
         IN  <<SubSeq(s, 1, n)>> \o Components(SubSeq(s, n + 1, Len(s)))

\* str.zfill(8)
RECURSIVE Zfill(_)
Zfill(s) == IF Len(s) >= 8 THEN s ELSE Zfill(<<"0">> \o s)

Final == <<"*", "f", "i", "n", "a", "l">>
FinalDash == <<"*", "f", "i", "n", "a", "l", "-">>
Zeros == Zfill(<<>>)

\* packaging's _parse_version_parts: numbers padded, words starred, "*final" last
LegacyParts(s) ==
    LET cs == Components(s)
    IN  [i \in 1..Len(cs) |->
            IF IsDigit(cs[i][1]) THEN Zfill(cs[i]) ELSE <<"*">> \o cs[i]]
        \o <<Final>>

RECURSIVE PopWhile(_, _)
PopWhile(parts, p) ==
    IF Len(parts) > 0 /\ Last(parts) = p THEN PopWhile(DropLast(parts, 1), p)
    ELSE parts

\* packaging's _legacy_cmpkey: before a starred part the trailing zero parts
\* go, and before a pre-release word the trailing "*final-" parts too
RECURSIVE LegacyKey(_, _)
LegacyKey(todo, parts) ==
    IF Len(todo) = 0 THEN parts
    ELSE LET part == todo[1]
             a == IF part[1] = "*" /\ StrLess(part, Final)
                  THEN PopWhile(parts, FinalDash) ELSE parts
             b == IF part[1] = "*" THEN PopWhile(a, Zeros) ELSE a
         IN  LegacyKey(Tail(todo), Append(b, part))

\* a dotted sequence of numbers: digits, then "." and digits any number of times
IsRelease(s) ==
    /\ Len(s) > 0
    /\ \A i \in 1..Len(s) : IsDigit(s[i]) \/ s[i] = "."
    /\ s[1] # "." /\ Last(s) # "."
    /\ \A i \in 1..(Len(s) - 1) : ~(s[i] = "." /\ s[i + 1] = ".")

\* packaging's Version key for a release: its numbers without trailing zeros
ReleaseKey(s) ==
    LET cs == Components(s)
    IN  PopWhile([i \in 1..Len(cs) |-> DecimalValue(cs[i])], 0)

parse_version(s) ==
    IF IsRelease(s) THEN [legacy |-> FALSE, key |-> ReleaseKey(s)]
    ELSE [legacy |-> TRUE, key |-> LegacyKey(LegacyParts(s), <<>>)]

\* a < b on parsed versions
VersionLess(a, b) ==
    IF a.legacy # b.legacy THEN a.legacy
    ELSE IF a.legacy THEN PartsLess(a.key, b.key)
    ELSE ReleaseLess(a.key, b.key)

-----------------------------------------------------------------------------
(* Python dicts and requests.structures.CaseInsensitiveDict                *)

\* key in d
DictHas(d, k) == \E i \in 1..Len(d) : d[i][1] = k

\* d.get(k, default)
DictGet(d, k, default) ==
    IF DictHas(d, k) THEN d[CHOOSE i \in 1..Len(d) : d[i][1] = k][2] ELSE default

\* str.lower() on the keys of the model
lower(k) ==
    CASE k = "A" -> "a"
      [] k = "C" -> "c"
      [] k = "VERSION" -> "version"
      [] k = "SOME_VALUE" -> "some_value"
      [] OTHER -> k

\* CaseInsensitiveDict.__setitem__: _store[key.lower()] = (key, value); a key
\* already stored keeps its place and takes the new (key, value)
StoreSet(store, k, v) ==
    IF \E i \in 1..Len(store) : store[i][1] = lower(k)
    THEN [i \in 1..Len(store) |->
            IF store[i][1] = lower(k) THEN <<lower(k), k, v>> ELSE store[i]]
    ELSE Append(store, <<lower(k), k, v>>)

\* CaseInsensitiveDict(d): the items of d set one after the other
RECURSIVE StoreUpdate(_, _)
StoreUpdate(store, d) ==
    IF Len(d) = 0 THEN store
    ELSE StoreUpdate(StoreSet(store, d[1][1], d[1][2]), Tail(d))

CaseInsensitiveDict(d) == StoreUpdate(<<>>, d)

\* key in cid
StoreHas(store, k) == \E i \in 1..Len(store) : store[i][1] = lower(k)

\* cid[key]
StoreGet(store, k) == store[CHOOSE i \in 1..Len(store) : store[i][1] = lower(k)][3]

\* _dict_is_part_of(dict_a, dict_b)
dict_is_part_of(a, b) ==
    LET ca == CaseInsensitiveDict(a)
        cb == CaseInsensitiveDict(b)
    IN  \A i \in 1..Len(cb) :
            ~(~StoreHas(ca, cb[i][2]) \/ StoreGet(ca, cb[i][2]) # cb[i][3])

-----------------------------------------------------------------------------
(* _get_app_versions and the version branches of should_update.  The       *)
(* summary is a record that has some of the fields of a Cloud Foundry app  *)
(* summary.                                                                *)

SummaryHas(summary, key) == key \in DOMAIN summary

\* the slip of reading env with setdefault, which stores the default
properties_after_setdefault_env(properties) ==
    IF DictHas(properties, "env") THEN properties
    ELSE Append(properties, <<"env", <<>>>>)

\* app_properties after line 78: get('env', {}) stores nothing in the dict
properties_after_get_env(properties) == properties

\* the two version strings, '' when the VERSION is not there
appstack_version_string(properties) ==
    DictGet(DictGet(properties, "env", <<>>), "VERSION", <<>>)

live_env_version_string(summary) ==
    IF SummaryHas(summary, "environment_json")
    THEN DictGet(summary["environment_json"], "VERSION", <<>>)
    ELSE <<>>

get_app_versions(properties, summary) ==
    <<parse_version(appstack_version_string(properties)),
      parse_version(live_env_version_string(summary))>>

\* the slip of leaving out the branch of lines 58-62
version_branch_without_lower(appstack_version, live_env_version) ==
    IF VersionLess(live_env_version, appstack_version) THEN "higher"
    ELSE "properties_differ"

\* the slip of leaving out the branch of lines 54-57
version_branch_without_higher(appstack_version, live_env_version) ==
    IF VersionLess(appstack_version, live_env_version) THEN "lower"
    ELSE "properties_differ"

\* the slip of >= for > at line 54
version_branch_higher_or_equal(appstack_version, live_env_version) ==
    IF ~VersionLess(appstack_version, live_env_version) THEN "higher"
    ELSE "lower"

\* lines 54-64: which way should_update goes for the two parsed versions
version_branch(appstack_version, live_env_version) ==
    IF VersionLess(live_env_version, appstack_version) THEN "higher"
    ELSE IF VersionLess(appstack_version, live_env_version) THEN "lower"
    ELSE "properties_differ"

-----------------------------------------------------------------------------
(* One round of the loop of _properties_differ: what the property `key`    *)
(* with the value `v` does against the summary: Same (the loop goes on), *)
(* Differ (return True) or an exception.                                   *)

Same == [kind |-> "same"]
Differ == [kind |-> "differ"]

Range(s) == {s[i] : i \in 1..Len(s)}

env_outcome(v, summary) ==
    IF ~SummaryHas(summary, "environment_json") THEN Raise("KeyError")
    ELSE IF ~dict_is_part_of(summary["environment_json"], v) THEN Differ
    ELSE Same

\* the slip of comparing disk_quota with the memory of the summary
size_outcome_of_memory(key, v, summary) ==
    LET megabytes_in_properties == normalize_to_megabytes(v)
    IN  IF megabytes_in_properties.kind = "raise" THEN megabytes_in_properties
        ELSE IF ~SummaryHas(summary, "memory") THEN Raise("KeyError")
        ELSE IF megabytes_in_properties.kind = "return_none" THEN Differ
        ELSE IF megabytes_in_properties.value # summary["memory"] THEN Differ
        ELSE Same

size_outcome(key, v, summary) ==
    LET megabytes_in_properties == normalize_to_megabytes(v)
    IN  IF megabytes_in_properties.kind = "raise" THEN megabytes_in_properties
        ELSE IF ~SummaryHas(summary, key) THEN Raise("KeyError")
        ELSE IF megabytes_in_properties.kind = "return_none" THEN Differ
        ELSE IF megabytes_in_properties.value # summary[key] THEN Differ
        ELSE Same

\* the slip of asking for the same services instead of a subset
services_outcome_same_set(v, summary) ==
    IF ~SummaryHas(summary, "services") THEN Raise("KeyError")
    ELSE LET summary_services ==
                 [i \in 1..Len(summary["services"]) |-> summary["services"][i].name]
         IN  IF Range(v) # Range(summary_services) THEN Differ ELSE Same

services_outcome(v, summary) ==
    IF ~SummaryHas(summary, "services") THEN Raise("KeyError")
    ELSE LET summary_services ==
                 [i \in 1..Len(summary["services"]) |-> summary["services"][i].name]
         IN  IF ~(Range(v) \subseteq Range(summary_services)) THEN Differ
             ELSE Same

host_outcome(v, summary) ==
    IF ~SummaryHas(summary, "routes") THEN Raise("KeyError")
    ELSE LET summary_hosts ==
                 [i \in 1..Len(summary["routes"]) |-> summary["routes"][i].host]
         IN  IF v \notin Range(summary_hosts) THEN Differ ELSE Same

exact_outcome(key, v, summary) ==
    IF ~SummaryHas(summary, key) THEN Raise("KeyError")
    ELSE IF v # summary[key] THEN Differ
    ELSE Same

property_outcome(key, v, summary) ==
    IF key = "env" THEN env_outcome(v, summary)
    ELSE IF key \in {"disk_quota", "memory"} THEN size_outcome(key, v, summary)
    ELSE IF key = "services" THEN services_outcome(v, summary)
    ELSE IF key = "host" THEN host_outcome(v, summary)
    ELSE exact_outcome(key, v, summary)

-----------------------------------------------------------------------------
(* The inputs of should_update.                                            *)

\* most properties of one application
MaxProps == 2

AppName == "some-app"
Guids == {"guid-1", "guid-2"}

V012 == <<"0", ".", "1", ".", "2">>
V013 == <<"0", ".", "1", ".", "3">>
VersionStrings == {<<>>, V012, V013, <<"d">>}

FAKE == <<"F", "A", "K", "E">>
NOT_FAKE == <<"O", "T", "H", "E", "R">>

\* env dicts: SOME_VALUE set (to one of some_values) or not, then VERSION set
\* (to one of VersionStrings) or not
EnvWith(somes) ==
    LET version == {<<>>} \cup {<< <<"VERSION", x>> >> : x \in VersionStrings}
    IN  {a \o b : a \in somes, b \in version}

AppstackEnvs == EnvWith({<<>>, << <<"SOME_VALUE", FAKE>> >>})
LiveEnvs == EnvWith({<< <<"SOME_VALUE", FAKE>> >>, << <<"SOME_VALUE", NOT_FAKE>> >>})

AppstackSizes == {<<"6", "4", "M">>, <<"1", "G">>, <<"1", "G", "B">>,
                  <<"6", "4">>, <<"1", ".", "5", "G">>}

PropertyValues(key) ==
    CASE key = "env" -> AppstackEnvs
      [] key = "memory" -> AppstackSizes
      [] key = "disk_quota" -> {<<"1", "G", "B">>}
      [] key = "services" -> {<<"service_1">>, <<"service_2", "service_1">>}
      [] key = "host" -> {"someapp", "abc"}
      [] key = "buildpack" -> {"python_buildpack", "bla_buildpack"}

PropertyKeys == {"env", "memory", "disk_quota", "services", "host", "buildpack"}

PropertyItems == UNION {{<<key, v>> : v \in PropertyValues(key)} : key \in PropertyKeys}

\* a dict has each key once
IsDict(items) ==
    \A i, j \in 1..Len(items) : items[i][1] = items[j][1] => i = j

AppProperties == {items \in SeqsUpTo(PropertyItems, MaxProps) : IsDict(items)}

Service(name) == [name |-> name, guid |-> "guid-of-" \o name]
Route(host) == [host |-> host, domain |-> "example.com"]

\* summaries: memory, disk_quota, services and routes always there,
\* environment_json and buildpack there or not
AppSummaries ==
    LET base == {[memory |-> 64, disk_quota |-> 1024,
                  services |-> <<Service("service_1")>>,
                  routes |-> <<Route("qwe"), Route("someapp")>>]}
        env == {<<>>} \cup {<< <<"environment_json", e>> >> : e \in LiveEnvs}
        buildpack == {<<>>, << <<"buildpack", "python_buildpack">> >>}
        Field(f) == IF Len(f) = 0 THEN <<>> ELSE f[1][1] :> f[1][2]
    IN  {b @@ Field(e) @@ Field(p) : b \in base, e \in env, p \in buildpack}

-----------------------------------------------------------------------------
(* should_update(app)                                                      *)

\* a return statement of should_update or of _properties_differ
ReturnAt(v, line) == [kind |-> "return", value |-> v, line |-> line]

\* the slip of not catching CommandFailedError
guid_lookup_failed_uncaught == Raise("CommandFailedError")

\* lines 45-49: CommandFailedError from get_app_guid is caught, the app is
\* assumed not to exist and is to be pushed
guid_lookup_failed == ReturnAt(TRUE, 49)

\* the slip of calling get_app_summary inside the try of lines 43-49
summary_fetch_failed_caught(exc) == ReturnAt(TRUE, 49)

\* line 50 is outside the try: what get_app_summary raises leaves should_update
summary_fetch_failed(exc) == Raise(exc)

\* fill_appstack is not running
FetcherIdle ==
    /\ cdh_conf = <<>>
    /\ env_conf = <<>>
    /\ file_variables = <<>>
    /\ fetched_config = <<>>
    /\ deployment_variables = <<>>
    /\ unmerged = {}
    /\ fpc = "idle"

Idle ==
    /\ FetcherIdle
    /\ value = <<>>
    /\ megabytes = NotCalled
    /\ dict_a = <<>>
    /\ dict_b = <<>>
    /\ part_of = NotCalled

Init ==
    /\ app_properties \in AppProperties
    /\ app_guid = NotCalled
    /\ app_summary = NotCalled
    /\ pc = "get_app_guid"
    /\ idx = 0
    /\ result = NotCalled
    /\ calls = <<>>
    /\ given_properties = app_properties
    /\ first_run = NotCalled
    /\ Idle

\* line 44, get_app_guid returns a guid
GetAppGuid ==
    /\ pc = "get_app_guid"
    /\ calls' = Append(calls, [fn |-> "get_app_guid", arg |-> AppName])
    /\ \E guid \in Guids : app_guid' = Return(guid)
    /\ pc' = "get_app_summary"
    /\ UNCHANGED <<app_properties, app_summary, idx, result>>
    /\ UNCHANGED <<size_vars, dict_vars, rerun_vars, fetcher_vars>>

\* lines 44-49, get_app_guid raises CommandFailedError
GetAppGuidFails ==
    /\ pc = "get_app_guid"
    /\ calls' = Append(calls, [fn |-> "get_app_guid", arg |-> AppName])
    /\ app_guid' = Raise("CommandFailedError")
    /\ result' = guid_lookup_failed
    /\ pc' = "done"
    /\ UNCHANGED <<app_properties, app_summary, idx>>
    /\ UNCHANGED <<size_vars, dict_vars, rerun_vars, fetcher_vars>>

\* line 50, get_app_summary returns the summary
GetAppSummary ==
    /\ pc = "get_app_summary"
    /\ calls' = Append(calls, [fn |-> "get_app_summary", arg |-> app_guid.value])
    /\ \E summary \in AppSummaries : app_summary' = Return(summary)
    /\ pc' = "compare_versions"
    /\ UNCHANGED <<app_properties, app_guid, idx, result>>
    /\ UNCHANGED <<size_vars, dict_vars, rerun_vars, fetcher_vars>>

\* line 50, get_app_summary raises
GetAppSummaryFails ==
    /\ pc = "get_app_summary"
    /\ calls' = Append(calls, [fn |-> "get_app_summary", arg |-> app_guid.value])
    /\ app_summary' = Raise("FetchError")
    /\ result' = summary_fetch_failed("FetchError")
    /\ pc' = "done"
    /\ UNCHANGED <<app_properties, app_guid, idx>>
    /\ UNCHANGED <<size_vars, dict_vars, rerun_vars, fetcher_vars>>

\* lines 51-64, up to the call of _properties_differ
CompareVersions ==
    /\ pc = "compare_versions"
    /\ LET versions == get_app_versions(app_properties, app_summary.value)
           branch == version_branch(versions[1], versions[2])
       IN  \/ /\ branch = "higher"
              /\ result' = ReturnAt(TRUE, 57)
              /\ pc' = "done"
              /\ idx' = idx
           \/ /\ branch = "lower"
              /\ result' = ReturnAt(FALSE, 62)
              /\ pc' = "done"
              /\ idx' = idx
           \/ /\ branch = "properties_differ"
              /\ result' = result
              /\ pc' = "properties_differ"
              /\ idx' = 1
    /\ app_properties' = properties_after_get_env(app_properties)
    /\ UNCHANGED <<app_guid, app_summary, calls>>
    /\ UNCHANGED <<size_vars, dict_vars, rerun_vars, fetcher_vars>>

\* lines 96-127, one round of the loop of _properties_differ; what it returns
\* or raises is what should_update returns or raises (line 64)
PropertiesDifferStep ==
    /\ pc = "properties_differ"
    /\ idx <= Len(app_properties)
    /\ LET outcome == property_outcome(app_properties[idx][1], app_properties[idx][2],
                                       app_summary.value)
       IN  \/ /\ outcome.kind = "same"
              /\ idx' = idx + 1
              /\ UNCHANGED <<pc, result>>
           \/ /\ outcome.kind = "differ"
              /\ result' = ReturnAt(TRUE, 127)
              /\ pc' = "done"
              /\ idx' = idx
           \/ /\ outcome.kind = "raise"
              /\ result' = outcome
              /\ pc' = "done"
              /\ idx' = idx
    /\ UNCHANGED <<app_properties, app_guid, app_summary, calls>>
    /\ UNCHANGED <<size_vars, dict_vars, rerun_vars, fetcher_vars>>

\* line 128, the loop is over
PropertiesDifferEnd ==
    /\ pc = "properties_differ"
    /\ idx > Len(app_properties)
    /\ result' = ReturnAt(FALSE, 128)
    /\ pc' = "done"
    /\ UNCHANGED <<app_properties, app_guid, app_summary, idx, calls>>
    /\ UNCHANGED <<size_vars, dict_vars, rerun_vars, fetcher_vars>>

Next ==
    \/ GetAppGuid
    \/ GetAppGuidFails
    \/ GetAppSummary
    \/ GetAppSummaryFails
    \/ CompareVersions
    \/ PropertiesDifferStep
    \/ PropertiesDifferEnd

Spec == Init /\ [][Next]_vars

-----------------------------------------------------------------------------
(* _normalize_to_megabytes on its own: every string over the characters    *)
(* of size strings, up to a length.                                        *)

\* longest size string
MaxSizeLen == 4

SizeChars == {"0", "1", "2", "9", "M", "G", "B", "K", "."}

DeciderIdle ==
    /\ app_properties = <<>>
    /\ app_guid = NotCalled
    /\ app_summary = NotCalled
    /\ pc = "idle"
    /\ idx = 0
    /\ result = NotCalled
    /\ calls = <<>>
    /\ given_properties = <<>>
    /\ first_run = NotCalled

InitSize ==
    /\ value \in SeqsUpTo(SizeChars, MaxSizeLen)
    /\ megabytes = NotCalled
    /\ dict_a = <<>>
    /\ dict_b = <<>>
    /\ part_of = NotCalled
    /\ DeciderIdle
    /\ FetcherIdle

NormalizeToMegabytes ==
    /\ megabytes = NotCalled
    /\ megabytes' = normalize_to_megabytes(value)
    /\ UNCHANGED <<value, decider_vars, dict_vars, rerun_vars, fetcher_vars>>

NextSize == NormalizeToMegabytes

SpecSize == InitSize /\ [][NextSize]_vars

-----------------------------------------------------------------------------
(* _dict_is_part_of on its own: every pair of dicts over a few keys, two   *)
(* of which differ only in letter case, in every iteration order.          *)

\* most items of one dict
MaxDictLen == 2

DictKeys == {"a", "A", "c"}
DictValues == {"b", "x"}

Dicts == {d \in SeqsUpTo(DictKeys \X DictValues, MaxDictLen) : IsDict(d)}

InitDict ==
    /\ dict_a \in Dicts
    /\ dict_b \in Dicts
    /\ part_of = NotCalled
    /\ value = <<>>
    /\ megabytes = NotCalled
    /\ DeciderIdle
    /\ FetcherIdle

DictIsPartOf ==
    /\ part_of = NotCalled
    /\ part_of' = Return(dict_is_part_of(dict_a, dict_b))
    /\ UNCHANGED <<dict_a, dict_b, decider_vars, size_vars, rerun_vars, fetcher_vars>>

NextDict == DictIsPartOf

SpecDict == InitDict /\ [][NextDict]_vars

-----------------------------------------------------------------------------
(* should_update called a second time for the same app, with get_app_guid  *)
(* and get_app_summary answering as they did the first time.               *)

\* the first call is over: keep what it was answered and what it gave, and
\* call should_update again with the same app object
RunAgain ==
    /\ pc = "done"
    /\ first_run = NotCalled
    /\ first_run' = [guid |-> app_guid, summary |-> app_summary, result |-> result]
    /\ app_guid' = NotCalled
    /\ app_summary' = NotCalled
    /\ result' = NotCalled
    /\ idx' = 0
    /\ calls' = <<>>
    /\ pc' = "get_app_guid_again"
    /\ UNCHANGED <<app_properties, given_properties>>
    /\ UNCHANGED <<size_vars, dict_vars, fetcher_vars>>

\* lines 43-49 of the second call, get_app_guid answering as before
GetAppGuidAgain ==
    /\ pc = "get_app_guid_again"
    /\ calls' = Append(calls, [fn |-> "get_app_guid", arg |-> AppName])
    /\ app_guid' = first_run.guid
    /\ IF first_run.guid.kind = "raise"
       THEN /\ result' = guid_lookup_failed
            /\ pc' = "done"
       ELSE /\ result' = result
            /\ pc' = "get_app_summary_again"
    /\ UNCHANGED <<app_properties, app_summary, idx>>
    /\ UNCHANGED <<size_vars, dict_vars, rerun_vars, fetcher_vars>>

\* line 50 of the second call, get_app_summary answering as before
GetAppSummaryAgain ==
    /\ pc = "get_app_summary_again"
    /\ calls' = Append(calls, [fn |-> "get_app_summary", arg |-> app_guid.value])
    /\ app_summary' = first_run.summary
    /\ IF first_run.summary.kind = "raise"
       THEN /\ result' = summary_fetch_failed(first_run.summary.exc)
            /\ pc' = "done"
       ELSE /\ result' = result
            /\ pc' = "compare_versions"
    /\ UNCHANGED <<app_properties, app_guid, idx>>
    /\ UNCHANGED <<size_vars, dict_vars, rerun_vars, fetcher_vars>>

NextTwice ==
    \/ Next
    \/ RunAgain
    \/ GetAppGuidAgain
    \/ GetAppSummaryAgain

SpecTwice == Init /\ [][NextTwice]_vars

-----------------------------------------------------------------------------
(* _properties_differ on its own, as the tests call it: a few properties   *)
(* against summaries that differ in every field, one of them a field no    *)
(* property names.                                                         *)

\* _properties_differ(app_properties, app_summary): the loop of lines 96-127
\* and the return of line 128
RECURSIVE properties_differ(_, _)
properties_differ(properties, summary) ==
    IF Len(properties) = 0 THEN ReturnAt(FALSE, 128)
    ELSE LET outcome == property_outcome(properties[1][1], properties[1][2], summary)
         IN  IF outcome.kind = "same" THEN properties_differ(Tail(properties), summary)
             ELSE IF outcome.kind = "differ" THEN ReturnAt(TRUE, 127)
             ELSE outcome

DiffPropertyValues(key) ==
    CASE key = "env" -> {<< <<"SOME_VALUE", FAKE>> >>}
      [] key = "memory" -> {<<"6", "4", "M">>, <<"6", "4">>}
      [] key = "disk_quota" -> {<<"1", "G", "B">>, <<"6", "4", "M">>}
      [] key = "services" -> {<<"service_1">>, <<"service_2", "service_1">>,
                              <<"service_1", "service_1">>}
      [] key = "host" -> {"someapp", "abc"}
      [] key = "buildpack" -> {"python_buildpack"}

DiffPropertyItems ==
    UNION {{<<key, v>> : v \in DiffPropertyValues(key)} : key \in PropertyKeys}

DiffProperties == {items \in SeqsUpTo(DiffPropertyItems, MaxProps) : IsDict(items)}

DiffSummaries ==
    LET base == {[memory |-> m, disk_quota |-> 1024, services |-> sv,
                  environment_json |-> e,
                  routes |-> <<Route("qwe"), Route("someapp")>>] :
                    m \in {64, 65},
                    sv \in {<<Service("service_1")>>,
                            <<Service("service_2"), Service("service_1")>>,
                            <<Service("service_1"), Service("service_3"),
                              Service("service_1")>>},
                    e \in {<< <<"SOME_VALUE", FAKE>>, <<"VERSION", V012>> >>,
                           << <<"SOME_VALUE", NOT_FAKE>> >>}}
        buildpack == {<<>>, << <<"buildpack", "python_buildpack">> >>}
        additional == {<<>>, << <<"some_additional_field", TRUE>> >>}
        Field(f) == IF Len(f) = 0 THEN <<>> ELSE f[1][1] :> f[1][2]
    IN  {b @@ Field(p) @@ Field(a) : b \in base, p \in buildpack, a \in additional}

InitDiff ==
    /\ app_properties \in DiffProperties
    /\ app_summary \in {Return(summary) : summary \in DiffSummaries}
    /\ app_guid = NotCalled
    /\ pc = "properties_differ_alone"
    /\ idx = 0
    /\ result = NotCalled
    /\ calls = <<>>
    /\ given_properties = app_properties
    /\ first_run = NotCalled
    /\ Idle

PropertiesDiffer ==
    /\ pc = "properties_differ_alone"
    /\ result' = properties_differ(app_properties, app_summary.value)
    /\ pc' = "done"
    /\ UNCHANGED <<app_properties, app_guid, app_summary, idx, calls>>
    /\ UNCHANGED <<size_vars, dict_vars, rerun_vars, fetcher_vars>>

NextDiff == PropertiesDiffer

SpecDiff == InitDiff /\ [][NextDiff]_vars

-----------------------------------------------------------------------------
(* fetcher.py: the configuration fetched from the environment is merged    *)
(* into the variables of templates/template_variables.yml. The dicts of    *)
(* this part are functions from keys to Python values; a Python value is   *)
(* its type and its repr.                                                  *)

PyStr(s) == [type |-> "str", repr |-> s]
PyNone == [type |-> "NoneType", repr |-> "None"]
PyInt0 == [type |-> "int", repr |-> "0"]

\* bool(v) as `not v` of line 98 takes it
Truthy(v) ==
    CASE v.type = "NoneType" -> FALSE
      [] v.type = "str" -> v.repr # ""
      [] v.type = "int" -> v.repr # "0"

\* d.get(key), None when the key is not there
PyGet(d, key) == IF key \in DOMAIN d THEN d[key] ELSE PyNone

\* d[key] = v
PySet(d, key, v) == [k \in DOMAIN d \cup {key} |-> IF k = key THEN v ELSE d[k]]

\* dict(items): a later item replaces an earlier one with the same key
RECURSIVE DictOfItems(_)
DictOfItems(items) ==
    IF Len(items) = 0 THEN <<>>
    ELSE PySet(DictOfItems(SubSeq(items, 1, Len(items) - 1)),
               items[Len(items)][1], items[Len(items)][2])

\* d.items(), in some order
Items(d) ==
    {items \in SeqsUpTo({<<k, d[k]>> : k \in DOMAIN d}, Cardinality(DOMAIN d)) :
        /\ Len(items) = Cardinality(DOMAIN d)
        /\ IsDict(items)}

\* the slip of filling in only the keys the file does not have
merge_missing_key(variables, key, v) ==
    IF key \notin DOMAIN variables THEN PySet(variables, key, v) ELSE variables

\* lines 98-99, one round of the loop
merge_fetched_value(variables, key, v) ==
    IF ~Truthy(PyGet(variables, key)) THEN PySet(variables, key, v) ELSE variables

FetchedKeys == {"cdh_and_cf", "cf_only"}
FileKeys == FetchedKeys \cup {"file_only"}

DictsOver(keys, values) == UNION {[ks -> values] : ks \in SUBSET keys}

CdhConfs == DictsOver({"cdh_and_cf"}, {PyStr("from-cdh")})
EnvConfs == DictsOver(FetchedKeys, {PyStr("from-cf"), PyStr("")})
FileVariables == DictsOver(FileKeys, {PyStr("from-file"), PyStr(""), PyNone, PyInt0})

InitFetcher ==
    /\ cdh_conf \in CdhConfs
    /\ env_conf \in EnvConfs
    /\ file_variables \in FileVariables
    /\ fetched_config = <<>>
    /\ deployment_variables = <<>>
    /\ unmerged = {}
    /\ fpc = "get_environment_config"
    /\ DeciderIdle
    /\ value = <<>>
    /\ megabytes = NotCalled
    /\ dict_a = <<>>
    /\ dict_b = <<>>
    /\ part_of = NotCalled

\* _get_environment_config, line 87
GetEnvironmentConfig ==
    /\ fpc = "get_environment_config"
    /\ \E cdh_items \in Items(cdh_conf), env_items \in Items(env_conf) :
          fetched_config' = DictOfItems(cdh_items \o env_items)
    /\ fpc' = "load_variables"
    /\ UNCHANGED <<cdh_conf, env_conf, file_variables, deployment_variables, unmerged>>
    /\ UNCHANGED <<decider_vars, size_vars, dict_vars, rerun_vars>>

\* _get_full_deployment_config, lines 94-97: the file is loaded and the loop
\* over the fetched values starts
LoadDeploymentVariables ==
    /\ fpc = "load_variables"
    /\ deployment_variables' = file_variables
    /\ unmerged' = DOMAIN fetched_config
    /\ fpc' = "merge"
    /\ UNCHANGED <<cdh_conf, env_conf, file_variables, fetched_config>>
    /\ UNCHANGED <<decider_vars, size_vars, dict_vars, rerun_vars>>

\* lines 97-99, one key of env_conf_values.iteritems(), in whatever order
MergeStep ==
    /\ fpc = "merge"
    /\ \E key \in unmerged :
          /\ deployment_variables' =
                 merge_fetched_value(deployment_variables, key, fetched_config[key])
          /\ unmerged' = unmerged \ {key}
    /\ UNCHANGED <<cdh_conf, env_conf, file_variables, fetched_config, fpc>>
    /\ UNCHANGED <<decider_vars, size_vars, dict_vars, rerun_vars>>

\* line 100, the loop is over and deduce_final_configuration is called
MergeEnd ==
    /\ fpc = "merge"
    /\ unmerged = {}
    /\ fpc' = "deduce_final_configuration"
    /\ UNCHANGED <<cdh_conf, env_conf, file_variables, fetched_config,
                   deployment_variables, unmerged>>
    /\ UNCHANGED <<decider_vars, size_vars, dict_vars, rerun_vars>>

NextFetcher ==
    \/ GetEnvironmentConfig
    \/ LoadDeploymentVariables
    \/ MergeStep
    \/ MergeEnd

SpecFetcher == InitFetcher /\ [][NextFetcher]_vars

-----------------------------------------------------------------------------
(* Properties of should_update (specification Spec).                       *)

Finished == pc = "done"
Fetched == app_summary.kind = "return"

AppstackVersion == parse_version(appstack_version_string(app_properties))
LiveVersion == parse_version(live_env_version_string(app_summary.value))

Downgrade == VersionLess(AppstackVersion, LiveVersion)
Upgrade == VersionLess(LiveVersion, AppstackVersion)

\* what property i of app_properties does against the fetched summary
OutcomeOf(i) ==
    property_outcome(app_properties[i][1], app_properties[i][2], app_summary.value)

OtherProperties == {i \in 1..Len(app_properties) : app_properties[i][1] # "env"}

\* C1: for an app that exists, whenever the appstack VERSION parses to a
\* version lower than the VERSION of the live environment, should_update
\* returns False at its downgrade branch, whatever the other properties are.
C1_DowngradeIsSkipped ==
    (Finished /\ Fetched /\ Downgrade) => result = ReturnAt(FALSE, 62)

\* a downgrade that was skipped although a property other than env differs
C1_Witness ==
    /\ Finished /\ Fetched /\ Downgrade
    /\ result = ReturnAt(FALSE, 62)
    /\ \E i \in OtherProperties : OutcomeOf(i).kind = "differ"

\* C2: for an app that exists, whenever the appstack VERSION parses to a
\* version higher than the live one, should_update returns True at its
\* upgrade branch and the loop of _properties_differ never starts.
C2_UpgradeIsPushed ==
    (Finished /\ Fetched /\ Upgrade) => (result = ReturnAt(TRUE, 57) /\ idx = 0)

\* an upgrade that was pushed although every other property matches
C2_Witness ==
    /\ Finished /\ Fetched /\ Upgrade
    /\ result = ReturnAt(TRUE, 57)
    /\ OtherProperties # {}
    /\ \A i \in OtherProperties : OutcomeOf(i).kind = "same"

SummaryCalls == {i \in 1..Len(calls) : calls[i].fn = "get_app_summary"}

\* C3: when get_app_guid fails, should_update ends returning True from its
\* except clause and get_app_summary is never called; get_app_summary is
\* called only as the second call, after get_app_guid was called with the
\* name of the app and returned, and with the guid it returned.
C3_MissingAppIsCreated ==
    /\ app_guid.kind = "raise" =>
          (Finished /\ result = ReturnAt(TRUE, 49) /\ SummaryCalls = {})
    /\ \A i \in SummaryCalls :
          /\ i = 2
          /\ calls[1] = [fn |-> "get_app_guid", arg |-> AppName]
          /\ app_guid.kind = "return"
          /\ calls[i].arg = app_guid.value

\* the guid lookup failed and the run is over
C3_Witness ==
    /\ app_guid.kind = "raise"
    /\ Finished
    /\ result = ReturnAt(TRUE, 49)
    /\ Len(calls) = 1

\* C4: when get_app_guid returns and get_app_summary then fails, should_update
\* ends raising the exception of get_app_summary: it returns nothing, and
\* get_app_summary was called once.
C4_FetchFailurePropagates ==
    app_summary.kind = "raise" =>
        /\ Finished
        /\ result = Raise(app_summary.exc)
        /\ Cardinality(SummaryCalls) = 1

\* the guid lookup returned and the summary fetch failed
C4_Witness ==
    /\ app_guid.kind = "return"
    /\ app_summary.kind = "raise"
    /\ Finished
    /\ result.kind = "raise"

\* the properties that do not match the summary: they differ or they raise
NotSame == {i \in 1..Len(app_properties) : OutcomeOf(i).kind # "same"}

\* the first of them
FirstNotSame == CHOOSE i \in NotSame : \A j \in NotSame : i <= j

\* C5: when the two versions compare equal (both absent included), what
\* should_update returns is what the property diff gives: True when the first
\* property that does not match differs, False when every property matches
\* (and the exception of the diff when the first property that does not
\* match raises).
C5_EqualVersionsDelegate ==
    (Finished /\ Fetched /\ ~Downgrade /\ ~Upgrade) =>
        /\ NotSame = {} => result = ReturnAt(FALSE, 128)
        /\ NotSame # {} =>
              IF OutcomeOf(FirstNotSame).kind = "differ"
              THEN result = ReturnAt(TRUE, 127)
              ELSE result = OutcomeOf(FirstNotSame)

\* no VERSION on either side, some properties, all of them matching: up to date
C5_Witness ==
    /\ Finished /\ Fetched
    /\ appstack_version_string(app_properties) = <<>>
    /\ live_env_version_string(app_summary.value) = <<>>
    /\ Len(app_properties) > 0
    /\ NotSame = {}
    /\ result = ReturnAt(FALSE, 128)

\* C6: a VERSION that is absent or empty is lower than every VERSION that is
\* there: VERSION in the appstack only gives True at the upgrade branch,
\* VERSION in the live environment only gives False at the downgrade branch.
C6_AbsentVersionIsLowest ==
    (Finished /\ Fetched) =>
        LET appstack == appstack_version_string(app_properties)
            live == live_env_version_string(app_summary.value)
        IN  /\ (appstack # <<>> /\ live = <<>>) => result = ReturnAt(TRUE, 57)
            /\ (appstack = <<>> /\ live # <<>>) => result = ReturnAt(FALSE, 62)

PolicyKeys == {"env", "disk_quota", "memory", "services", "host"}

\* C9: when the versions are equal and the first property that does not
\* match is compared by equality and has no field in the summary,
\* should_update returns True as for a difference, and raises nothing.
C9_MissingFieldIsDifference ==
    (Finished /\ Fetched /\ ~Downgrade /\ ~Upgrade) =>
        \A i \in 1..Len(app_properties) :
            (/\ app_properties[i][1] \notin PolicyKeys
             /\ ~SummaryHas(app_summary.value, app_properties[i][1])
             /\ \A j \in 1..(i - 1) : OutcomeOf(j).kind = "same")
            => result = ReturnAt(TRUE, 127)

-----------------------------------------------------------------------------
(* Properties of _normalize_to_megabytes (specification SpecSize).         *)

\* str(n)
RECURSIVE Str(_)
Str(n) ==
    IF n < 10 THEN <<Digits[n + 1]>>
    ELSE Str(n \div 10) \o <<Digits[(n % 10) + 1]>>

\* largest number of the size strings looked at
MaxSizeNumber == 128

SizeNumbers == 0..MaxSizeNumber

\* C7: for every number N, "{N}M" and "{N}MB" give N, "{N}G" and "{N}GB"
\* give 1024 * N.
C7_SuffixesNormalize ==
    megabytes # NotCalled =>
        \A n \in SizeNumbers :
            /\ value = Str(n) \o <<"M">> => megabytes = Return(n)
            /\ value = Str(n) \o <<"M", "B">> => megabytes = Return(n)
            /\ value = Str(n) \o <<"G">> => megabytes = Return(1024 * n)
            /\ value = Str(n) \o <<"G", "B">> => megabytes = Return(1024 * n)

\* "12GB" was normalized
C7_Witness ==
    /\ value = <<"1", "2", "G", "B">>
    /\ megabytes = Return(12288)

SizeSuffixes == {<<"M">>, <<"M", "B">>, <<"G">>, <<"G", "B">>}

\* a number followed by one of the four suffixes
WellFormedSize(v) ==
    \E suffix \in SizeSuffixes :
        /\ Len(v) > Len(suffix)
        /\ SubSeq(v, Len(v) - Len(suffix) + 1, Len(v)) = suffix
        /\ \A i \in 1..(Len(v) - Len(suffix)) : v[i] \in Range(Digits)

\* C8: a size string without a suffix, with another suffix or with a prefix
\* that is not an integer makes _normalize_to_megabytes raise.
C8_MalformedSizeRaises ==
    (megabytes # NotCalled /\ ~WellFormedSize(value)) => megabytes.kind = "raise"

-----------------------------------------------------------------------------
(* Properties of _dict_is_part_of (specification SpecDict).                *)

\* C10: _dict_is_part_of(dict_a, dict_b) is true exactly when every key of
\* dict_b is, letter case aside, a key of dict_a with the same value.
C10_PartOfIsCaseInsensitiveSubset ==
    part_of # NotCalled =>
        (part_of.value <=>
            \A i \in 1..Len(dict_b) : \E j \in 1..Len(dict_a) :
                /\ lower(dict_a[j][1]) = lower(dict_b[i][1])
                /\ dict_a[j][2] = dict_b[i][2])

\* every size among the properties has an integer before its suffix
SizesAreIntegers ==
    \A i \in 1..Len(app_properties) : OutcomeOf(i) # Raise("ValueError")

\* the field of the summary a property is compared with
FieldOf(key) ==
    IF key = "env" THEN "environment_json"
    ELSE IF key = "host" THEN "routes"
    ELSE key

\* the summary has the fields the compared properties with a policy read
PolicyFieldsFetched ==
    \A i \in 1..Len(app_properties) :
        app_properties[i][1] \in PolicyKeys =>
            SummaryHas(app_summary.value, FieldOf(app_properties[i][1]))

\* C14: when should_update gets as far as the property diff, the loop stops
\* at the first property, in the order of the dict, that does not satisfy its
\* policy and True is returned there, later properties not being looked at;
\* False is returned exactly when every property satisfies its policy. A
\* property whose field the summary does not have does not satisfy its policy.
C14_FirstFailingPropertyWins ==
    (Finished /\ Fetched /\ ~Downgrade /\ ~Upgrade /\ SizesAreIntegers
        /\ PolicyFieldsFetched) =>
        /\ NotSame = {} => result = ReturnAt(FALSE, 128) /\ idx = Len(app_properties) + 1
        /\ NotSame # {} => result = ReturnAt(TRUE, 127) /\ idx = FirstNotSame

-----------------------------------------------------------------------------
(* Properties of _properties_differ (specification SpecDiff).              *)

\* the two summaries agree on every field the properties are compared with
Agree(properties, s, t) ==
    \A i \in 1..Len(properties) :
        LET field == FieldOf(properties[i][1])
        IN  /\ SummaryHas(s, field) <=> SummaryHas(t, field)
            /\ SummaryHas(s, field) => s[field] = t[field]

\* C11: two summaries that agree on every field the properties name (the
\* field of the same name, environment_json for env, routes for host) get the
\* same answer from _properties_differ, whatever their other fields are.
C11_UnnamedFieldsIgnored ==
    (pc = "done" /\ result # NotCalled) =>
        \A t \in DiffSummaries :
            Agree(app_properties, app_summary.value, t) =>
                properties_differ(app_properties, t) = result

\* no difference was found against a summary with a field no property names,
\* and a summary with other values in the unnamed fields exists
C11_Witness ==
    /\ pc = "done"
    /\ result = ReturnAt(FALSE, 128)
    /\ Len(app_properties) > 0
    /\ SummaryHas(app_summary.value, "some_additional_field")
    /\ \E t \in DiffSummaries :
          /\ Agree(app_properties, app_summary.value, t)
          /\ ~SummaryHas(t, "some_additional_field")
          /\ t.memory # app_summary.value.memory

\* the names of the services of the summary the diff ran against
ObservedServiceNames ==
    {app_summary.value.services[i].name :
        i \in 1..Len(app_summary.value.services)}

\* C12: when services is the only property that can fail (every other
\* property matches), _properties_differ returns True exactly when some
\* desired service name is not among the names of the summary's services,
\* and False otherwise: more live services, another order or a name twice on
\* either side make no difference.
C12_ServicesAreSubset ==
    pc = "done" =>
        \A i \in 1..Len(app_properties) :
            (/\ app_properties[i][1] = "services"
             /\ \A j \in 1..Len(app_properties) : j # i => OutcomeOf(j).kind = "same")
            => LET missing == Range(app_properties[i][2]) \ ObservedServiceNames
               IN  /\ missing # {} => result = ReturnAt(TRUE, 127)
                   /\ missing = {} => result = ReturnAt(FALSE, 128)

\* the desired names are given twice or in another order than in the
\* summary, the summary has a service more and one twice, and no difference
\* is reported
C12_Witness ==
    /\ pc = "done"
    /\ result = ReturnAt(FALSE, 128)
    /\ \E i \in 1..Len(app_properties) :
          /\ app_properties[i][1] = "services"
          /\ app_properties[i][2] = <<"service_1", "service_1">>
    /\ app_summary.value.services =
          <<Service("service_1"), Service("service_3"), Service("service_1")>>

-----------------------------------------------------------------------------
(* Properties of two calls of should_update (specification SpecTwice).     *)

SecondRunFinished == pc = "done" /\ first_run # NotCalled

\* C13: a second call of should_update with the same app, answered with the
\* same guid and the same summary (or the same failure), ends as the first
\* call did; at the end of either call the properties of the app are as they
\* were given and the summary is as get_app_summary returned it.
C13_SecondRunIsTheSame ==
    /\ pc = "done" => app_properties = given_properties
    /\ SecondRunFinished =>
          /\ result = first_run.result
          /\ app_guid = first_run.guid
          /\ app_summary = first_run.summary

\* both calls went through the property diff and found a difference
C13_Witness ==
    /\ SecondRunFinished
    /\ first_run.result = ReturnAt(TRUE, 127)
    /\ result = ReturnAt(TRUE, 127)
    /\ Len(calls) = 2
    /\ ~DictHas(app_properties, "env")

-----------------------------------------------------------------------------
(* Properties of the merge in fetcher.py (specification SpecFetcher).      *)

Merged == fpc = "deduce_final_configuration"

\* the file has the key with a truthy value
SetInFile(key) == key \in DOMAIN file_variables /\ Truthy(file_variables[key])

\* C15: when the merge of _get_full_deployment_config is over, every
\* fetched key has the value of the file if the file sets it to something
\* truthy and the fetched value otherwise (key not in the file, or there with
\* an empty or falsy value); the keys of the file that were not fetched have
\* the value of the file; there are no other keys.
C15_TruthyFileValueWins ==
    Merged =>
        /\ DOMAIN deployment_variables = DOMAIN file_variables \cup DOMAIN fetched_config
        /\ \A key \in DOMAIN fetched_config :
              deployment_variables[key] =
                  IF SetInFile(key) THEN file_variables[key] ELSE fetched_config[key]
        /\ \A key \in DOMAIN file_variables \ DOMAIN fetched_config :
              deployment_variables[key] = file_variables[key]

\* one fetched key kept the value of the file, one the file has with an empty
\* value took the fetched one, and a key that was not fetched is still there
C15_Witness ==
    /\ Merged
    /\ DOMAIN fetched_config = FetchedKeys
    /\ DOMAIN file_variables = FileKeys
    /\ file_variables["cdh_and_cf"] = PyStr("from-file")
    /\ deployment_variables["cdh_and_cf"] = PyStr("from-file")
    /\ file_variables["cf_only"] = PyStr("")
    /\ deployment_variables["cf_only"] = PyStr("from-cf")
    /\ deployment_variables["file_only"] = PyNone

=============================================================================
